---- MODULE Spec2Model ----
(***************************************************************************)
(* Request/reply coordination over the message bus of the invoicing        *)
(* services: the three hand-written request/reply call sites (gateway      *)
(* GET /invoices, handleSendInvoice, checkOverdueInvoices), the worker     *)
(* subscription loops that answer them, and the services' shutdown.        *)
(***************************************************************************)
EXTENDS Integers, Sequences, FiniteSets, TLC

\* ------------------------------------------------------------------ bounds
MaxCalls == 2       \* request/reply calls that may be issued
MaxExt == 2         \* requests published by callers outside the model
MaxTriggers == 2    \* shutdown() invocations in one process
MaxOps == 2         \* calls of the gateway's bus client that are recorded
MaxItems == 2       \* items of one invoice.create request
MaxCreates == 3     \* invoices created for the organization
MaxRuns == 2        \* runs of checkOverdueInvoices
MaxReqs == 2        \* messages sent to the payment and subscription subjects
MaxLimit == 3       \* largest invoice_limit of a plan, and usage of an unlimited one

Calls == 1..MaxCalls
MsgIds == 1..(MaxCalls + MaxExt)

\* ------------------------------------------------------- static structure
Sites == {"gateway", "sendInvoice", "reminder"}
Loops == {"invoice.create", "invoice.get.request",
          "email.send.request", "payment.create.request"}
Services == {"api-gateway", "invoice-svc", "email-svc",
             "payment-svc", "reminder-svc"}
NodeEnvs == {"production", "development", "unset"}

\* the loop whose handler, handleSendInvoice, makes a request/reply call
SendLoop == "invoice.send"
AllLoops == Loops \cup {SendLoop}

\* the service whose process runs a call site
SiteService(st) ==
  IF st = "gateway" THEN "api-gateway"
  ELSE IF st = "sendInvoice" THEN "invoice-svc"
  ELSE "reminder-svc"

\* the request subject a call site publishes on
SiteLoop(st) ==
  IF st = "gateway" THEN "invoice.get.request" ELSE "email.send.request"

\* the service whose process runs a worker loop
LoopService(L) ==
  IF L \in {"invoice.create", "invoice.get.request", "invoice.send"}
    THEN "invoice-svc"
  ELSE IF L = "email.send.request" THEN "email-svc"
  ELSE "payment-svc"

\* loops that broadcast a fan-out event after the reply
HasFanout(L) ==
  L \in {"invoice.create", "email.send.request", "invoice.send"}

\* loops that fall back to "<topic>.response.<requestId>"
Fallback(L) == L \in {"invoice.get.request", "email.send.request"}

\* ---------------------------------------------------------------- promise
NoValue == [kind |-> "none", n |-> 0, req |-> 0]
TimeoutError == [kind |-> "timeout", n |-> 0, req |-> 0]
Pending == [state |-> "pending", value |-> NoValue]
Resolved(v) == [state |-> "resolved", value |-> v]
Rejected(v) == [state |-> "rejected", value |-> v]

\* a promise keeps its first settlement (mutation: the last one wins)
SettleOverwrite(p, outcome) == outcome

\* resolve()/reject() of `new Promise`: only the first call takes effect
Settle(p, outcome) == IF p.state = "pending" THEN outcome ELSE p

\* (mutation) the executor publishes the request before it subscribes
RequestOrderPublishFirst(st) == <<"timer", "publish", "subscribe">>

\* (mutation) the executor subscribes only after timer and publish
RequestOrderSubscribeLast(st) == <<"publish", "timer", "subscribe">>

\* the statements of the promise executor, in source order
RequestOrder(st) == <<"timer", "subscribe", "publish">>

\* (mutation) the timer callback only logs
TimerCallbackLogOnly(p) == p

\* the setTimeout callback: reject with the timeout error, nothing else
TimerCallback(p) == Settle(p, Rejected(TimeoutError))

\* what the reply callback does with a decoded reply
CallbackOutcome(st, payload) ==
  IF st = "gateway" THEN Resolved(payload)
  ELSE IF payload.kind = "err" THEN Rejected(payload)
  ELSE Resolved(payload)

\* what the code after `await responsePromise` hands to its caller
CallerResult(st, p, env) ==
  IF p.state = "resolved" THEN "response"
  ELSE IF st = "reminder" THEN "skipped"
  ELSE IF env # "production" THEN "mock"
  ELSE "error"

\* positions of a call that lie inside one synchronous run of its process
SyncPcs == {"exec", "created"}

\* ------------------------------------------------------------ worker loop
NoMsg == [id |-> 0, reply |-> FALSE, reqId |-> 0, decodable |-> TRUE]
NotHandled == [loop |-> "none", msg |-> NoMsg, why |-> "none",
               afterThrow |-> FALSE, fatal |-> FALSE, to |-> {}]

\* where the success reply of message m goes
ReplyTarget(L, m) ==
  IF m.reply THEN "reply"
  ELSE IF Fallback(L) /\ m.reqId # 0 THEN "response"
  ELSE "none"

\* where the error reply of message m goes
CatchTarget(L, m) ==
  IF m.reply THEN "reply"
  ELSE IF L = "invoice.get.request"
       THEN (IF m.decodable /\ m.reqId # 0 THEN "response" ELSE "none")
  ELSE IF L = "email.send.request"
       THEN (IF m.reqId # 0 THEN "response" ELSE "none")
  ELSE "none"

\* the try block of a loop body: decode, handler, reply, fan-out
TryPhase(L, m, handlerOk, fanoutOk, connOpen) ==
  LET target == ReplyTarget(L, m)
      replyPubs == IF target = "none" THEN <<>>
                   ELSE <<[to |-> target, kind |-> "ok"]>>
  IN  IF ~m.decodable THEN [pubs |-> <<>>, threw |-> TRUE, why |-> "undecodable"]
      ELSE IF ~handlerOk THEN [pubs |-> <<>>, threw |-> TRUE, why |-> "threw"]
      ELSE IF target # "none" /\ ~connOpen
        THEN [pubs |-> <<>>, threw |-> TRUE, why |-> "closed"]
      ELSE IF HasFanout(L)
        THEN IF ~connOpen \/ ~fanoutOk
               THEN [pubs |-> replyPubs, threw |-> TRUE, why |-> "fanoutFail"]
               ELSE [pubs |-> replyPubs \o <<[to |-> "event", kind |-> "ok"]>>,
                     threw |-> FALSE, why |-> "ok"]
      ELSE [pubs |-> replyPubs, threw |-> FALSE, why |-> "ok"]

\* (mutation) the catch block lets the exception escape the loop
CatchPhaseRethrow(L, m, connOpen) == [pubs |-> <<>>, crashed |-> TRUE]

\* the catch block of a loop body: log, publish the error envelope
CatchPhase(L, m, connOpen) ==
  LET target == CatchTarget(L, m)
  IN  IF L = "email.send.request" /\ ~m.decodable
        THEN [pubs |-> <<>>, crashed |-> TRUE]
      ELSE IF target = "none" THEN [pubs |-> <<>>, crashed |-> FALSE]
      ELSE IF ~connOpen THEN [pubs |-> <<>>, crashed |-> TRUE]
      ELSE [pubs |-> <<[to |-> target, kind |-> "err"]>>, crashed |-> FALSE]

\* one iteration of `for await (const msg of sub) { try {..} catch {..} }`
LoopBody(L, m, handlerOk, fanoutOk, connOpen) ==
  LET t == TryPhase(L, m, handlerOk, fanoutOk, connOpen)
  IN  IF t.threw
        THEN LET c == CatchPhase(L, m, connOpen)
             IN  [pubs |-> t.pubs \o c.pubs, crashed |-> c.crashed, why |-> t.why]
        ELSE [pubs |-> t.pubs, crashed |-> FALSE, why |-> t.why]

\* --------------------------------------------------------- invoice.create
NoReq == [items |-> <<>>, reply |-> FALSE, present |-> FALSE]
NoOut == [items |-> <<>>, reply |-> FALSE, saved |-> FALSE, envelopes |-> <<>>,
          total100 |-> 0, number |-> <<>>]

\* InvoiceItem: quantity and unit_price
Items == [quantity : {1, 2}, unit_price : {50, 100}]
ItemLists == UNION {[1..n -> Items] : n \in 0..MaxItems}

\* (mutation) the amount of an item ignores its quantity
AmountUnitOnly(item) == item.unit_price

\* `const amount = item.quantity * item.unit_price`
Amount(item) == item.quantity * item.unit_price

\* `subtotal += amount` over data.items, in order
RECURSIVE Subtotal(_)
Subtotal(items) ==
  IF items = <<>> THEN 0 ELSE Amount(Head(items)) + Subtotal(Tail(items))

\* `const taxRate = 0.20`, in percent
TaxRatePercent == 20

\* taxAmount = subtotal * taxRate and totalAmount = subtotal + taxAmount,
\* in hundredths of the currency unit
TotalAmount100(items) ==
  LET subtotal == Subtotal(items)
      taxAmount100 == subtotal * TaxRatePercent
  IN  subtotal * 100 + taxAmount100

\* new Date().getFullYear(), as decimal digits
CurrentYear == <<2, 0, 2, 6>>

\* the longest digit string parseInt turns into an exact number
SafeDigits == 15

\* parseInt of a string of decimal digits: the number, as its digits
\* without leading zeros (<<>> is zero)
RECURSIVE ParseInt(_)
ParseInt(str) ==
  IF str # <<>> /\ Head(str) = 0 THEN ParseInt(Tail(str)) ELSE str

\* numberPart + 1
RECURSIVE PlusOne(_)
PlusOne(n) ==
  IF n = <<>> THEN <<1>>
  ELSE IF n[Len(n)] < 9 THEN [n EXCEPT ![Len(n)] = @ + 1]
  ELSE PlusOne(SubSeq(n, 1, Len(n) - 1)) \o <<0>>

\* Number.prototype.toString
NumToString(n) == IF n = <<>> THEN <<0>> ELSE n

\* String.prototype.padStart(len, ch)
RECURSIVE PadStart(_, _, _)
PadStart(str, len, ch) ==
  IF Len(str) >= len THEN str ELSE PadStart(<<ch>> \o str, len, ch)

\* lastNumber.split('-')[1]: what follows "INV-" (numbers are stored
\* as the digits after the dash)
NumberPart(lastNumber) == lastNumber

\* the invoice number, as the digits after "INV-": the year followed by
\* nextNumber padded to four digits; nextNumber is 1 unless the lookup of
\* the most recent invoice succeeded and found one
InvoiceNumber(stored, lookupOk) ==
  LET nextNumber ==
        IF lookupOk /\ stored # <<>>
          THEN PlusOne(ParseInt(NumberPart(stored[Len(stored)])))
          ELSE <<1>>
  IN  CurrentYear \o PadStart(NumToString(nextNumber), 4, 0)

\* ------------------------------------------------------ overdue reminders
RunIds == 1..MaxRuns
OverdueInvoices == {1, 2}
Levels == <<"first", "second", "third">>
ReminderKeys == OverdueInvoices \X {Levels[i] : i \in 1..Len(Levels)}
NoRun == [kind |-> "none", inv |-> 0, level |-> "none", phase |-> "idle"]

\* `for (const invoice of overdueInvoices)`: the run moves to its next
\* invoice, or returns after the last one
NextInvoice(run) ==
  IF run.inv + 1 \in OverdueInvoices
    THEN [run EXCEPT !.inv = @ + 1, !.phase = "check"]
    ELSE [run EXCEPT !.phase = "done"]

\* ---------------------------------------------------------- invoice usage
\* invoice_limit null: the plan has no limit
Unlimited == 0 - 1
NoPlan == [limit |-> Unlimited, usage |-> 0, active |-> FALSE]
NoUsageOut == [count |-> 0, reply |-> FALSE, limit |-> Unlimited, before |-> 0,
               after |-> 0, error |-> "none", replied |-> FALSE,
               limitReached |-> FALSE]

\* (mutation) the limit check forgets the increment
LimitExceededNoCount(sub, count) ==
  sub.limit # Unlimited /\ sub.usage > sub.limit

\* `subscription.invoice_limit !== null &&
\*  subscription.invoice_usage + count > subscription.invoice_limit`
LimitExceeded(sub, count) ==
  sub.limit # Unlimited /\ sub.usage + count > sub.limit

\* incrementInvoiceUsage(organizationId, count): the new usage and the
\* error thrown ("" when it returns)
IncrementInvoiceUsage(sub, count, fetchOk, updateOk) ==
  IF ~fetchOk \/ ~sub.active
    THEN [usage |-> sub.usage, error |-> "Abonnement non trouve"]
  ELSE IF LimitExceeded(sub, count)
    THEN [usage |-> sub.usage, error |-> "Limite de factures atteinte"]
  ELSE IF ~updateOk
    THEN [usage |-> sub.usage, error |-> "Erreur lors de la mise a jour"]
  ELSE [usage |-> sub.usage + count, error |-> ""]

\* `data.count || 1`
CountOrOne(count) == IF count = 0 THEN 1 ELSE count

\* error.message.includes('Limite de factures atteinte')
LimitReached(message) == message = "Limite de factures atteinte"

\* messages on the payment and subscription subjects
ReqMsgIds == 1..MaxReqs
NoBusMsg == [subject |-> "none", reply |-> FALSE, state |-> "none"]

\* ------------------------------------------------------------------ state
VARIABLES
  svc,        \* lifecycle state of each service process
  shutLog,    \* service -> bus calls and exit made by its shutdown, in order
  site,       \* call -> the call site that issued it ("none" before)
  serving,    \* call -> id of the invoice.send message it is made for, or 0
  pc,         \* call -> position of the calling code
  step,       \* call -> next statement of the promise executor
  promise,    \* call -> state of responsePromise / emailPromise
  timer,      \* call -> state of the setTimeout handle
  sub,        \* call -> state of the reply subscription
  published,  \* call -> the request message has been published
  inbox,      \* call -> replies received by the reply subscription, unprocessed
  result,     \* call -> what the calling code returned
  cbLog,      \* call -> replies handed to the reply callback, with the timer state
  dropLog,    \* call -> timer states at which a reply found no subscriber
  invoiceStatus, \* call -> stored status of the invoice its handler works on
  unhandled,  \* services that saw an unhandled promise rejection
  queue,      \* loop -> messages received by the loop's subscription
  cur,        \* loop -> message whose handler is awaited
  loopSub,    \* loop -> state of the loop's subscription
  crashed,    \* loop -> an exception escaped the for-await loop
  handled,    \* message -> how its loop iteration ended ("none" before)
  responses,  \* message -> envelopes published to its reply address
  fanned,     \* messages for which a fan-out event was published
  extCount,   \* requests published so far by outside callers
  natsClient, \* gateway: the module-level connection handle of nats.ts
  network,    \* gateway: state of the link to the NATS server
  gwLog,      \* gateway: outcome of each publishMessage / subscribeToSubject
  gwPublished, \* gateway: subjects handed to the connection by publishMessage
  gwSubs,     \* gateway: subjects subscribeToSubject has subscribed to
  invoices,   \* invoice-svc: numbers of the organization's invoices, oldest first
  createReq,  \* invoice-svc: the invoice.create message being handled
  createOut,  \* invoice-svc: what the handling of the last message produced
  dueLevel,   \* reminder-svc: the reminder level whose threshold day is today
  runs,       \* reminder-svc: run -> position of a checkOverdueInvoices run
  reminders,  \* reminder-svc: rows of invoice_reminders, <<invoice, level>>
  emailRequests, \* reminder-svc: <<invoice, level>> -> reminder emails requested
  paymentBuild, \* payment-svc: which of its entry points the process runs
  busMsgs,    \* message -> subject, reply address and fate of a published message
  busReplies, \* message -> envelopes published to its reply address
  gwOutcome,  \* message -> how the gateway's nc.request for it ended
  paidStatus, \* payment-svc: stored status of the invoice a payment is for
  completed,  \* payment-svc: payment.completed events published, by status
  plan,       \* payment-svc: invoice_limit and invoice_usage of the subscription
  usageOut    \* payment-svc: outcome of the last subscription.invoice.increment

callVars == <<site, serving, pc, step, promise, timer, sub, published, inbox, result,
              cbLog, dropLog, invoiceStatus>>
loopVars == <<queue, cur, loopSub, crashed, handled, responses, fanned, extCount>>
coreVars == <<svc, shutLog, callVars, unhandled, loopVars>>
clientVars == <<natsClient, network, gwLog, gwPublished, gwSubs>>
createVars == <<invoices, createReq, createOut>>
reminderVars == <<dueLevel, runs, reminders, emailRequests>>
paymentVars == <<paymentBuild, busMsgs, busReplies, gwOutcome, paidStatus, completed>>
usageVars == <<plan, usageOut>>
bizVars == <<clientVars, createVars, reminderVars, paymentVars, usageVars>>
vars == <<coreVars, bizVars>>

Init ==
  /\ svc = [s \in Services |-> "Running"]
  /\ shutLog = [s \in Services |-> <<>>]
  /\ site = [c \in Calls |-> "none"]
  /\ serving = [c \in Calls |-> 0]
  /\ pc = [c \in Calls |-> "idle"]
  /\ step = [c \in Calls |-> 1]
  /\ promise = [c \in Calls |-> Pending]
  /\ timer = [c \in Calls |-> "unset"]
  /\ sub = [c \in Calls |-> "none"]
  /\ published = [c \in Calls |-> FALSE]
  /\ inbox = [c \in Calls |-> <<>>]
  /\ result = [c \in Calls |-> "none"]
  /\ cbLog = [c \in Calls |-> <<>>]
  /\ dropLog = [c \in Calls |-> {}]
  /\ invoiceStatus = [c \in Calls |-> "draft"]
  /\ unhandled = {}
  /\ queue = [L \in AllLoops |-> <<>>]
  /\ cur = [L \in AllLoops |-> NoMsg]
  /\ loopSub = [L \in AllLoops |-> "open"]
  /\ crashed = [L \in AllLoops |-> FALSE]
  /\ handled = [i \in MsgIds |-> NotHandled]
  /\ responses = [i \in MsgIds |-> <<>>]
  /\ fanned = {}
  /\ extCount = 0
  /\ natsClient = "undefined"
  /\ network = "up"
  /\ gwLog = <<>>
  /\ gwPublished = <<>>
  /\ gwSubs = {}
  /\ invoices = <<>>
  /\ createReq = NoReq
  /\ createOut = NoOut
  /\ dueLevel = 1
  /\ runs = [r \in RunIds |-> NoRun]
  /\ reminders = {}
  /\ emailRequests = [k \in ReminderKeys |-> 0]
  /\ paymentBuild = "none"
  /\ busMsgs = [i \in ReqMsgIds |-> NoBusMsg]
  /\ busReplies = [i \in ReqMsgIds |-> <<>>]
  /\ gwOutcome = [i \in ReqMsgIds |-> "none"]
  /\ paidStatus = "sent"
  /\ completed = {}
  /\ plan = NoPlan
  /\ usageOut = NoUsageOut

\* the process of service s is inside a synchronous run of a promise executor
Busy(s) ==
  \E c \in Calls : /\ site[c] # "none"
                   /\ SiteService(site[c]) = s
                   /\ pc[c] \in SyncPcs

\* the event loop of service s can start a new task
CanRun(s) == svc[s] # "Stopped" /\ ~Busy(s)

\* the bus connection of service s is open
ConnOpen(s) == svc[s] = "Running"

\* a message arrives at the subscription of loop L (dropped when it is closed)
Enqueue(q, L, m) ==
  [q EXCEPT ![L] = IF loopSub[L] = "open" THEN Append(@, m) ELSE @]

\* ------------------------------------------------------ request/reply call
Owner(c) == SiteService(site[c])

\* (mutation) every call uses the same correlation id
RequestIdShared(c) == 1

\* `req_${Date.now()}_${Math.random()...}`: a fresh correlation id per call
RequestId(c) == c

\* the subject a call site subscribes to for the reply of request id
ReplySubject(st, id) == [topic |-> SiteLoop(st), id |-> id]

\* the subject "<topic>.response.<requestId>" a loop falls back to
ResponseSubject(L, m) == [topic |-> L, id |-> m.reqId]

\* the calls whose reply subscription is on the response subject of m
Subscribers(L, m) ==
  {c \in Calls : /\ site[c] # "none"
                 /\ ReplySubject(site[c], RequestId(c)) = ResponseSubject(L, m)}

\* the request message a call publishes (requestId in the payload, no reply-to)
RequestMsg(c) ==
  [id |-> c, reply |-> FALSE, reqId |-> RequestId(c), decodable |-> TRUE]

\* how many calls of a site can be in flight at once: handleSendInvoice is
\* awaited by the sequential invoice.send loop, checkOverdueInvoices awaits
\* each reminder and runs from the cron job and from the sequential
\* reminder.check.request loop, the gateway serves requests concurrently
SiteConcurrency(st) ==
  IF st = "sendInvoice" THEN 1
  ELSE IF st = "reminder" THEN 2
  ELSE MaxCalls

InFlight(st) == {c \in Calls : site[c] = st /\ pc[c] # "done"}

\* what a call site has written to the invoice's status by the time it
\* reaches its exchange: handleSendInvoice has updated it to 'sent', the
\* gateway route and checkOverdueInvoices leave the sent/draft status alone
StatusUpdate(st, status) == IF st = "sendInvoice" THEN "sent" ELSE status

\* a route handler / handleSendInvoice / checkOverdueInvoices reaches the
\* `new Promise(...)` of its request/reply exchange
StartCall(c, st) ==
  /\ pc[c] = "idle"
  /\ Cardinality(InFlight(st)) < SiteConcurrency(st)
  /\ \A d \in Calls : d < c => pc[d] # "idle"
  /\ svc[SiteService(st)] = "Running"
  /\ ~Busy(SiteService(st))
  /\ site' = [site EXCEPT ![c] = st]
  /\ invoiceStatus' = [invoiceStatus EXCEPT ![c] = StatusUpdate(st, @)]
  /\ pc' = [pc EXCEPT ![c] = "exec"]
  /\ step' = [step EXCEPT ![c] = 1]
  /\ UNCHANGED <<svc, shutLog, serving, promise, timer, sub, published, inbox, result,
                 cbLog, dropLog, unhandled, loopVars>>
  /\ UNCHANGED bizVars

\* the next statement of the promise executor
ExecStep(c) ==
  /\ pc[c] = "exec"
  /\ LET op == RequestOrder(site[c])[step[c]]
     IN  /\ timer' = IF op = "timer" THEN [timer EXCEPT ![c] = "armed"] ELSE timer
         /\ sub' = IF op = "subscribe" THEN [sub EXCEPT ![c] = "open"] ELSE sub
         /\ published' = IF op = "publish" THEN [published EXCEPT ![c] = TRUE]
                         ELSE published
         /\ queue' = IF op = "publish"
                       THEN Enqueue(queue, SiteLoop(site[c]), RequestMsg(c))
                       ELSE queue
  /\ step' = [step EXCEPT ![c] = @ + 1]
  /\ pc' = [pc EXCEPT ![c] = IF step[c] = Len(RequestOrder(site[c]))
                               THEN "created" ELSE "exec"]
  /\ UNCHANGED <<svc, shutLog, serving, site, promise, inbox, result, cbLog, dropLog,
                 unhandled, cur, loopSub, crashed, handled, responses, fanned,
                 extCount>>
  /\ UNCHANGED invoiceStatus
  /\ UNCHANGED bizVars

\* `await responsePromise` inside try: the rejection handler is attached
AwaitPromise(c) ==
  /\ pc[c] = "created"
  /\ pc' = [pc EXCEPT ![c] = "awaiting"]
  /\ UNCHANGED <<svc, shutLog, serving, site, step, promise, timer, sub, published,
                 inbox, result, cbLog, dropLog, unhandled, loopVars>>
  /\ UNCHANGED invoiceStatus
  /\ UNCHANGED bizVars

\* the timeout elapses and the setTimeout callback runs
TimerFire(c) ==
  /\ timer[c] = "armed"
  /\ CanRun(Owner(c))
  /\ timer' = [timer EXCEPT ![c] = "fired"]
  /\ promise' = [promise EXCEPT ![c] = TimerCallback(@)]
  /\ unhandled' = IF /\ pc[c] \notin {"awaiting", "done"}
                     /\ promise'[c].state = "rejected"
                    THEN unhandled \cup {Owner(c)} ELSE unhandled
  /\ UNCHANGED <<svc, shutLog, serving, site, pc, step, sub, published, inbox, result,
                 cbLog, dropLog, loopVars>>
  /\ UNCHANGED invoiceStatus
  /\ UNCHANGED bizVars

\* the reply subscription hands its next message to the reply callback:
\* clearTimeout, unsubscribe, decode, resolve or reject; the callback-mode
\* subscription and the iterator that breaks deliver nothing more
ReplyCallback(c) ==
  /\ inbox[c] # <<>>
  /\ sub[c] = "open"
  /\ CanRun(Owner(c))
  /\ LET payload == Head(inbox[c])
     IN  /\ promise' = [promise EXCEPT ![c] = Settle(@, CallbackOutcome(site[c], payload))]
         /\ cbLog' = [cbLog EXCEPT ![c] = Append(@, [p |-> payload, t |-> timer[c]])]
  /\ timer' = [timer EXCEPT ![c] = IF @ = "armed" THEN "cleared" ELSE @]
  /\ sub' = [sub EXCEPT ![c] = "closed"]
  /\ inbox' = [inbox EXCEPT ![c] = IF site[c] = "gateway" THEN Tail(@) ELSE <<>>]
  /\ UNCHANGED <<svc, shutLog, serving, site, pc, step, published, result, dropLog,
                 unhandled, loopVars>>
  /\ UNCHANGED invoiceStatus
  /\ UNCHANGED bizVars

\* the code after `await responsePromise` runs: return, or the catch block
\* reads NODE_ENV and falls back to mock data or throws
Consume(c, env) ==
  /\ pc[c] = "awaiting"
  /\ promise[c].state # "pending"
  /\ CanRun(Owner(c))
  /\ pc' = [pc EXCEPT ![c] = "done"]
  /\ result' = [result EXCEPT ![c] = CallerResult(site[c], promise[c], env)]
  /\ UNCHANGED <<svc, shutLog, serving, site, step, promise, timer, sub, published,
                 inbox, cbLog, dropLog, unhandled, loopVars>>
  /\ UNCHANGED invoiceStatus
  /\ UNCHANGED bizVars

\* ------------------------------------------------------------ worker loops
\* the envelopes among pubs that go to the requester
ReplyKinds(pubs) ==
  LET rs == SelectSeq(pubs, LAMBDA x : x.to # "event")
  IN  [i \in 1..Len(rs) |-> rs[i].kind]

\* the effect of one loop iteration r on the bus and on the loop
ApplyBody(L, m, r) ==
  LET kinds == ReplyKinds(r.pubs)
      toResp == m.reqId # 0 /\ ~m.reply /\ kinds # <<>>
      subs == IF toResp THEN Subscribers(L, m) ELSE {}
      payloads == [i \in 1..Len(kinds) |->
                     [kind |-> kinds[i], n |-> Len(responses[m.id]) + i,
                      req |-> m.id]]
  IN  /\ responses' = [responses EXCEPT ![m.id] = @ \o kinds]
      /\ fanned' = IF \E i \in 1..Len(r.pubs) : r.pubs[i].to = "event"
                     THEN fanned \cup {m.id} ELSE fanned
      /\ inbox' = [c \in Calls |->
                      IF c \in subs /\ sub[c] = "open"
                        THEN inbox[c] \o payloads ELSE inbox[c]]
      /\ dropLog' = [c \in Calls |->
                        IF c \in subs /\ sub[c] # "open"
                          THEN dropLog[c] \cup {timer[c]} ELSE dropLog[c]]
      /\ crashed' = [crashed EXCEPT ![L] = r.crashed]
      /\ unhandled' = IF r.crashed THEN unhandled \cup {LoopService(L)}
                      ELSE unhandled
      /\ handled' = [handled EXCEPT ![m.id] =
                        [loop |-> L, msg |-> m, why |-> r.why,
                         afterThrow |-> /\ m.reply
                                        /\ \E j \in MsgIds :
                                             /\ handled[j].loop = L
                                             /\ handled[j].why = "threw",
                         fatal |-> r.crashed,
                         to |-> {r.pubs[i].to : i \in 1..Len(r.pubs)}
                                  \ {"event"}]]

\* a caller outside the model publishes a request on a worker's subject,
\* with or without a reply address, with or without a requestId field in a
\* decodable payload, or with a payload that cannot be decoded
ExtPublish(L, r, q, d) ==
  /\ extCount < MaxExt
  /\ q => d
  /\ extCount' = extCount + 1
  /\ queue' = Enqueue(queue, L,
                      [id |-> MaxCalls + extCount + 1, reply |-> r,
                       reqId |-> IF q THEN MaxCalls + extCount + 1 ELSE 0,
                       decodable |-> d])
  /\ UNCHANGED <<svc, shutLog, callVars, unhandled, cur, loopSub, crashed,
                 handled, responses, fanned>>
  /\ UNCHANGED bizVars

\* (mutation) one consumer serves every subscription of the process
LoopFreeShared(L) ==
  \A K \in AllLoops : LoopService(K) = LoopService(L) => cur[K] = NoMsg

\* the for-await loop of L is at its pull point: its previous iteration,
\* awaited handler included, has ended
LoopFree(L) == cur[L] = NoMsg

\* the for-await loop pulls its next message and decodes it; an undecodable
\* message goes through the catch block at once, a decodable one awaits
\* the business handler
Take(L) ==
  /\ queue[L] # <<>>
  /\ LoopFree(L)
  /\ ~crashed[L]
  /\ CanRun(LoopService(L))
  /\ queue' = [queue EXCEPT ![L] = Tail(@)]
  /\ LET m == Head(queue[L])
     IN  IF m.decodable
           THEN /\ cur' = [cur EXCEPT ![L] = m]
                /\ UNCHANGED <<responses, fanned, inbox, dropLog, crashed,
                               unhandled, handled>>
           ELSE /\ ApplyBody(L, m, LoopBody(L, m, TRUE, TRUE,
                                            ConnOpen(LoopService(L))))
                /\ UNCHANGED cur
  /\ UNCHANGED <<svc, shutLog, serving, site, pc, step, promise, timer, sub, published,
                 result, cbLog, loopSub, extCount>>
  /\ UNCHANGED invoiceStatus
  /\ UNCHANGED bizVars

\* the awaited business handler returns or throws, and the rest of the loop
\* body runs: reply, fan-out event, catch block
Finish(L, handlerOk, fanoutOk) ==
  /\ cur[L] # NoMsg
  /\ CanRun(LoopService(L))
  /\ ApplyBody(L, cur[L], LoopBody(L, cur[L], handlerOk, fanoutOk,
                                   ConnOpen(LoopService(L))))
  /\ cur' = [cur EXCEPT ![L] = NoMsg]
  /\ UNCHANGED <<svc, shutLog, serving, site, pc, step, promise, timer, sub, published,
                 result, cbLog, queue, loopSub, extCount>>
  /\ UNCHANGED invoiceStatus
  /\ UNCHANGED bizVars

\* ----------------------------------------------------- invoice.send handler
\* the calls handleSendInvoice has made for message m
ServingCalls(m) == {c \in Calls : serving[c] = m.id}

\* (mutation) the loop body does not await handleSendInvoice
HandlerSettledNoAwait(m) == TRUE

\* `await handleSendInvoice(...)` has settled: the handler threw before its
\* request/reply exchange, or the exchange it awaits is over
HandlerSettled(m) == \A c \in ServingCalls(m) : pc[c] = "done"

\* handleSendInvoice returned (the email reply or the mock result) rather
\* than threw
HandlerOk(m) ==
  /\ ServingCalls(m) # {}
  /\ \A c \in ServingCalls(m) : result[c] \in {"response", "mock"}

\* handleSendInvoice, awaited by the invoice.send loop for the message the
\* loop holds, reaches the `new Promise(...)` of its exchange with email-svc
StartSend(c) ==
  /\ pc[c] = "idle"
  /\ cur[SendLoop] # NoMsg
  /\ ServingCalls(cur[SendLoop]) = {}
  /\ \A d \in Calls : d < c => pc[d] # "idle"
  /\ svc[SiteService("sendInvoice")] = "Running"
  /\ ~Busy(SiteService("sendInvoice"))
  /\ site' = [site EXCEPT ![c] = "sendInvoice"]
  /\ invoiceStatus' = [invoiceStatus EXCEPT ![c] = StatusUpdate("sendInvoice", @)]
  /\ serving' = [serving EXCEPT ![c] = cur[SendLoop].id]
  /\ pc' = [pc EXCEPT ![c] = "exec"]
  /\ step' = [step EXCEPT ![c] = 1]
  /\ UNCHANGED <<svc, shutLog, promise, timer, sub, published, inbox, result,
                 cbLog, dropLog, unhandled, loopVars>>
  /\ UNCHANGED bizVars

\* the awaited handleSendInvoice has settled and the rest of the invoice.send
\* loop body runs: reply, invoice.sent event, catch block
FinishSend(fanoutOk) ==
  /\ cur[SendLoop] # NoMsg
  /\ CanRun(LoopService(SendLoop))
  /\ HandlerSettled(cur[SendLoop])
  /\ ApplyBody(SendLoop, cur[SendLoop],
               LoopBody(SendLoop, cur[SendLoop], HandlerOk(cur[SendLoop]),
                        fanoutOk, ConnOpen(LoopService(SendLoop))))
  /\ cur' = [cur EXCEPT ![SendLoop] = NoMsg]
  /\ UNCHANGED <<svc, shutLog, site, serving, pc, step, promise, timer, sub,
                 published, result, cbLog, queue, loopSub, extCount>>
  /\ UNCHANGED invoiceStatus
  /\ UNCHANGED bizVars

\* --------------------------------------------------------------- shutdown
\* services that install setupGracefulShutdown and issue request/reply calls
ShutdownServices == {"invoice-svc", "reminder-svc"}

\* the events that can end a process
Events == {"SIGINT", "SIGTERM", "uncaughtException", "unhandledRejection"}

\* what a service has registered for an event: the workers wire all four to
\* shutdown(); the gateway only has process.on('unhandledRejection') with
\* process.exit(1), everything else takes the runtime's default (the
\* process terminates)
HandlerOf(s, ev) ==
  IF s # "api-gateway" THEN "shutdown"
  ELSE IF ev = "unhandledRejection" THEN "exit"
  ELSE "default"

\* the `subscriptions` list of a service, in the order of subscriptions.push
Subscriptions(s) ==
  IF s = "invoice-svc"
    THEN <<"invoice.create", "invoice.get.request", "invoice.generate.pdf",
           "invoice.delete", "invoice.send">>
  ELSE IF s = "email-svc" THEN <<"email.send.request">>
  ELSE IF s = "payment-svc"
    THEN <<"payment.create.request", "payment.get.request",
           "payment.webhook.event">>
  ELSE IF s = "reminder-svc" THEN <<"reminder.check.request">>
  ELSE <<>>

UnsubCalls(s) ==
  [i \in 1..Len(Subscriptions(s)) |->
     [op |-> "unsubscribe", sub |-> Subscriptions(s)[i]]]

CloseCall == [op |-> "close", sub |-> "connection"]
ExitCall == [op |-> "exit", sub |-> "process"]

\* (mutation) shutdown() closes the connection before it unsubscribes
ShutdownCallsCloseFirst(s) == <<CloseCall>> \o UnsubCalls(s)

\* the bus calls of one run of shutdown(): unsubscribe every handle of the
\* list, then natsClient.close()
ShutdownCalls(s) == UnsubCalls(s) \o <<CloseCall>>

\* how many times shutdown() of service s has called close()
CloseCount(s) ==
  Cardinality({i \in 1..Len(shutLog[s]) : shutLog[s][i] = CloseCall})

\* shutdown(): unsubscribe every subscription of the `subscriptions` list and
\* call natsClient.close(), which closes every subscription of the connection
Shutdown(s) ==
  /\ svc[s] = "Running"
  /\ ~Busy(s)
  /\ svc' = [svc EXCEPT ![s] = "Closing"]
  /\ shutLog' = [shutLog EXCEPT ![s] = @ \o ShutdownCalls(s)]
  /\ loopSub' = [L \in AllLoops |->
                   IF LoopService(L) = s THEN "closed" ELSE loopSub[L]]
  /\ sub' = [c \in Calls |->
               IF site[c] # "none" /\ Owner(c) = s /\ sub[c] = "open"
                 THEN "closed" ELSE sub[c]]
  /\ UNCHANGED <<site, serving, pc, step, promise, timer, published, inbox,
                 result, cbLog, dropLog, unhandled, queue, cur, crashed, handled,
                 responses, fanned, extCount>>
  /\ UNCHANGED invoiceStatus
  /\ UNCHANGED bizVars

\* the process stops without running shutdown(): process.exit(1) of the
\* gateway's unhandledRejection handler, or the default action of an event
\* nothing is registered for
Kill(s) ==
  /\ svc[s] = "Running"
  /\ svc' = [svc EXCEPT ![s] = "Stopped"]
  /\ shutLog' = [shutLog EXCEPT ![s] = Append(@, ExitCall)]
  /\ UNCHANGED <<callVars, unhandled, loopVars>>
  /\ UNCHANGED bizVars

\* event ev reaches the Running process of service s
Trigger(s, ev) ==
  IF HandlerOf(s, ev) = "shutdown" THEN Shutdown(s) ELSE Kill(s)

\* event ev reaches service s while `await natsClient.close()` of an earlier
\* shutdown() is pending: the handler is still registered, shutdown() runs
\* again from its first line
Reenter(s, ev) ==
  /\ svc[s] = "Closing"
  /\ HandlerOf(s, ev) = "shutdown"
  /\ ~Busy(s)
  /\ CloseCount(s) < MaxTriggers
  /\ shutLog' = [shutLog EXCEPT ![s] = @ \o ShutdownCalls(s)]
  /\ UNCHANGED <<svc, callVars, unhandled, loopVars>>
  /\ UNCHANGED bizVars

\* close() has completed: process.exit(0)
Exit(s) ==
  /\ svc[s] = "Closing"
  /\ ~Busy(s)
  /\ svc' = [svc EXCEPT ![s] = "Stopped"]
  /\ shutLog' = [shutLog EXCEPT ![s] = Append(@, ExitCall)]
  /\ UNCHANGED <<callVars, unhandled, loopVars>>
  /\ UNCHANGED bizVars

\* ----------------------------------------------------- gateway bus client
GatewaySubjects == {"invoice.create", "invoice.send"}

\* (mutation) the guard also refuses to publish while the link is down
ClientCallGuardNet(client, net) ==
  IF client = "undefined" \/ net = "down" THEN "NATS client not initialized"
  ELSE IF client = "closed" THEN "connection closed"
  ELSE "ok"

\* publishMessage / subscribeToSubject: `if (!natsClient) throw new
\* Error('NATS client not initialized')`, then the call on the connection,
\* whose error (a closed connection) is logged and rethrown; a connection
\* that reconnects without limit buffers while the link is down
ClientCall(client, net) ==
  IF client = "undefined" THEN "NATS client not initialized"
  ELSE IF client = "closed" THEN "connection closed"
  ELSE "ok"

\* the link to the NATS server goes down or comes back
NetworkChange ==
  /\ network' = IF network = "up" THEN "down" ELSE "up"
  /\ UNCHANGED <<coreVars, createVars, reminderVars, paymentVars, usageVars, natsClient, gwLog, gwPublished, gwSubs>>

\* connectNats(): `natsClient = await connect(...)`; the handle is assigned
\* only when connect() resolves, a failed connect rethrows and leaves it
ConnectNats ==
  /\ natsClient = "undefined"
  /\ natsClient' = IF network = "up" THEN "open" ELSE natsClient
  /\ UNCHANGED <<coreVars, createVars, reminderVars, paymentVars, usageVars, network, gwLog, gwPublished, gwSubs>>

\* closeNatsConnection(): close() when the handle exists; the handle stays
CloseNatsConnection ==
  /\ natsClient = "open"
  /\ natsClient' = "closed"
  /\ UNCHANGED <<coreVars, createVars, reminderVars, paymentVars, usageVars, network, gwLog, gwPublished, gwSubs>>

\* publishMessage(subject, data)
PublishMessage(subject) ==
  /\ Len(gwLog) < MaxOps
  /\ LET out == ClientCall(natsClient, network)
     IN  /\ gwLog' = Append(gwLog, [op |-> "publish", client |-> natsClient,
                                    net |-> network, outcome |-> out,
                                    effects |-> IF out = "ok" THEN 1 ELSE 0])
         /\ gwPublished' = IF out = "ok" THEN Append(gwPublished, subject)
                           ELSE gwPublished
  /\ UNCHANGED <<coreVars, createVars, reminderVars, paymentVars, usageVars, natsClient, network, gwSubs>>

\* subscribeToSubject(subject, callback)
SubscribeToSubject(subject) ==
  /\ Len(gwLog) < MaxOps
  /\ LET out == ClientCall(natsClient, network)
     IN  /\ gwLog' = Append(gwLog, [op |-> "subscribe", client |-> natsClient,
                                    net |-> network, outcome |-> out,
                                    effects |-> IF out = "ok" THEN 1 ELSE 0])
         /\ gwSubs' = IF out = "ok" THEN gwSubs \cup {subject} ELSE gwSubs
  /\ UNCHANGED <<coreVars, createVars, reminderVars, paymentVars, usageVars, natsClient, network, gwPublished>>

\* ------------------------------------------------- invoice.create handler
\* a caller publishes invoice.create with a list of items, as a request
\* (with reply address) or fire-and-forget like the gateway's POST /
CreateRequest(items, reply) ==
  /\ ~createReq.present
  /\ Len(invoices) < MaxCreates
  /\ invoices # <<>> => Len(invoices[Len(invoices)]) <= SafeDigits
  /\ createReq' = [items |-> items, reply |-> reply, present |-> TRUE]
  /\ createOut' = NoOut
  /\ UNCHANGED <<coreVars, clientVars, reminderVars, paymentVars, usageVars, invoices>>

\* one iteration of the invoice.create loop: handleCreateInvoice looks up
\* the last number, computes number and totals and inserts the invoice;
\* the loop replies and publishes invoice.created, or its catch block runs
HandleCreate(lookupOk, insertOk, fanoutOk) ==
  /\ createReq.present
  /\ LET number == InvoiceNumber(invoices, lookupOk)
         m == [id |-> 1, reply |-> createReq.reply, reqId |-> 0,
               decodable |-> TRUE]
         body == LoopBody("invoice.create", m, insertOk, fanoutOk, TRUE)
     IN  /\ invoices' = IF insertOk THEN Append(invoices, number) ELSE invoices
         /\ createOut' = [items |-> createReq.items, reply |-> createReq.reply,
                          saved |-> insertOk,
                          envelopes |-> ReplyKinds(body.pubs),
                          total100 |-> IF insertOk
                                         THEN TotalAmount100(createReq.items)
                                         ELSE 0,
                          number |-> IF insertOk THEN number ELSE <<>>]
  /\ createReq' = NoReq
  /\ UNCHANGED <<coreVars, clientVars, reminderVars, paymentVars, usageVars>>

\* --------------------------------------------------- checkOverdueInvoices
\* the invoices' days overdue reach the threshold of the next level
NextThreshold ==
  /\ dueLevel < Len(Levels)
  /\ dueLevel' = dueLevel + 1
  /\ UNCHANGED <<coreVars, clientVars, createVars, paymentVars, usageVars, runs, reminders, emailRequests>>

\* the cron job fires, or the reminder.check.request loop pulls a message:
\* checkOverdueInvoices starts, fetches the overdue invoices and computes
\* the level from today's date; the loop awaits its run, so does the job
StartRun(r, kind) ==
  /\ runs[r] = NoRun
  /\ \A q \in RunIds : q < r => runs[q] # NoRun
  /\ \A q \in RunIds : runs[q].kind = kind => runs[q].phase = "done"
  /\ runs' = [runs EXCEPT ![r] = [kind |-> kind, inv |-> 1,
                                  level |-> Levels[dueLevel], phase |-> "check"]]
  /\ UNCHANGED <<coreVars, clientVars, createVars, paymentVars, usageVars, dueLevel, reminders, emailRequests>>

\* the query of invoice_reminders for this invoice and level returns: on an
\* error or an existing row the invoice is skipped
CheckExisting(r, queryOk) ==
  /\ runs[r].phase = "check"
  /\ runs' = [runs EXCEPT ![r] =
                IF ~queryOk \/ <<@.inv, @.level>> \in reminders
                  THEN NextInvoice(@)
                  ELSE [@ EXCEPT !.phase = "send"]]
  /\ UNCHANGED <<coreVars, clientVars, createVars, paymentVars, usageVars, dueLevel, reminders, emailRequests>>

\* the status update has returned and the executor of emailPromise runs:
\* the reminder email is requested on email.send.request
SendReminder(r) ==
  /\ runs[r].phase = "send"
  /\ emailRequests' = [emailRequests EXCEPT ![<<runs[r].inv, runs[r].level>>] = @ + 1]
  /\ runs' = [runs EXCEPT ![r].phase = "await"]
  /\ UNCHANGED <<coreVars, clientVars, createVars, paymentVars, usageVars, dueLevel, reminders>>

\* `await emailPromise` settles: with the email result, or with the
\* timeout or the error envelope, which the catch block logs
EmailSettled(r, ok) ==
  /\ runs[r].phase = "await"
  /\ runs' = [runs EXCEPT ![r] = IF ok THEN [@ EXCEPT !.phase = "insert"]
                                 ELSE NextInvoice(@)]
  /\ UNCHANGED <<coreVars, clientVars, createVars, paymentVars, usageVars, dueLevel, reminders, emailRequests>>

\* the insert into invoice_reminders returns (insertError is only logged),
\* reminder.sent is published, the run goes on with the next invoice
RecordReminder(r, insertOk) ==
  /\ runs[r].phase = "insert"
  /\ reminders' = IF insertOk THEN reminders \cup {<<runs[r].inv, runs[r].level>>}
                  ELSE reminders
  /\ runs' = [runs EXCEPT ![r] = NextInvoice(@)]
  /\ UNCHANGED <<coreVars, clientVars, createVars, paymentVars, usageVars, dueLevel, emailRequests>>

\* ------------------------------------------- payment and subscription bus
WebhookSubject == "payment.webhook.event"

\* the subjects the gateway calls nc.request on, and invoice.get.request of
\* its hand-written exchange
GatewayRequestSubjects ==
  {"subscription.plans.get", "subscription.get.request",
   "subscription.create.request", "subscription.cancel.request",
   "invoice.get.request"}

\* the two entry points of payment-svc found in the repository
PaymentBuilds == {"payments", "subscriptions"}

\* the subjects an entry point of payment-svc subscribes to
PaymentSubscribed(build) ==
  IF build = "payments"
    THEN {"payment.create.request", "payment.get.request", WebhookSubject}
  ELSE IF build = "subscriptions"
    THEN {"subscription.plans.get", "subscription.create.request",
          "subscription.invoice.increment", "payment.create.request",
          "subscription.get.request", "payment.get.request", WebhookSubject}
  ELSE {}

\* the subscriptions of an entry point that a for-await loop consumes: the
\* entry point with the subscription subjects subscribes to
\* payment.webhook.event and serves webhooks over HTTP instead
PaymentConsumed(build) ==
  IF build = "subscriptions" THEN PaymentSubscribed(build) \ {WebhookSubject}
  ELSE PaymentSubscribed(build)

\* a running worker consumes messages of the subject
HasConsumer(build, subject) ==
  \/ subject \in PaymentConsumed(build)
  \/ subject \in {Subscriptions("invoice-svc")[i] :
                     i \in 1..Len(Subscriptions("invoice-svc"))}

PaymentStatuses == {"succeeded", "failed", "pending"}

\* what handleWebhookEvent does once the provider has verified the event
\* and returned the payment: for a succeeded payment with an invoice, the
\* invoice is updated to 'paid' (an update error is only logged) and
\* payment.completed is published
WebhookEffect(status, hasInvoice, updateOk, stored) ==
  IF status = "succeeded" /\ hasInvoice
    THEN [stored |-> IF updateOk THEN "paid" ELSE stored,
          event |-> {[status |-> status, stored |-> IF updateOk THEN "paid" ELSE stored]}]
    ELSE [stored |-> stored, event |-> {}]

\* ------------------------------------------------ payment-svc and gateway
\* payment-svc starts from one of its entry points and subscribes
StartPaymentSvc(build) ==
  /\ paymentBuild = "none"
  /\ paymentBuild' = build
  /\ UNCHANGED <<coreVars, clientVars, createVars, reminderVars, usageVars, busMsgs,
                 busReplies, gwOutcome, paidStatus, completed>>

\* a message is published on a subject: it reaches the subscription of the
\* running worker that has one, and nobody otherwise
Deliver(i, subject, reply) ==
  /\ paymentBuild # "none"
  /\ busMsgs[i] = NoBusMsg
  /\ \A j \in ReqMsgIds : j < i => busMsgs[j] # NoBusMsg
  /\ busMsgs' = [busMsgs EXCEPT ![i] =
                   [subject |-> subject, reply |-> reply,
                    state |-> IF \/ subject \in PaymentSubscribed(paymentBuild)
                                 \/ HasConsumer(paymentBuild, subject)
                                THEN "pending" ELSE "dropped"]]

\* a gateway route calls nc.request(subject, ..., {timeout})
GatewayRequest(i, subject) ==
  /\ Deliver(i, subject, TRUE)
  /\ gwOutcome' = [gwOutcome EXCEPT ![i] = "waiting"]
  /\ UNCHANGED <<coreVars, clientVars, createVars, reminderVars, usageVars, paymentBuild,
                 busReplies, paidStatus, completed>>

\* the request's timeout elapses (or the server reports no responders)
\* because no worker consumes the subject: the route answers 500
RequestTimeout(i) ==
  /\ gwOutcome[i] = "waiting"
  /\ ~HasConsumer(paymentBuild, busMsgs[i].subject)
  /\ gwOutcome' = [gwOutcome EXCEPT ![i] = "failed"]
  /\ UNCHANGED <<coreVars, clientVars, createVars, reminderVars, usageVars, paymentBuild,
                 busMsgs, busReplies, paidStatus, completed>>

\* the for-await loop of the request's subject handles it and replies: the
\* result, or the error envelope of its catch block
HandleRequest(i, handlerOk) ==
  /\ busMsgs[i].state = "pending"
  /\ busMsgs[i].subject # WebhookSubject
  /\ HasConsumer(paymentBuild, busMsgs[i].subject)
  /\ busMsgs' = [busMsgs EXCEPT ![i].state = "handled"]
  /\ busReplies' = [busReplies EXCEPT ![i] =
                      IF busMsgs[i].reply
                        THEN Append(@, IF handlerOk THEN "ok" ELSE "err") ELSE @]
  /\ gwOutcome' = [gwOutcome EXCEPT ![i] = IF @ = "waiting" THEN "replied" ELSE @]
  /\ UNCHANGED <<coreVars, clientVars, createVars, reminderVars, usageVars, paymentBuild,
                 paidStatus, completed>>

\* a payment provider event is published on payment.webhook.event
PublishWebhook(i, reply) ==
  /\ Deliver(i, WebhookSubject, reply)
  /\ UNCHANGED <<coreVars, clientVars, createVars, reminderVars, usageVars, paymentBuild,
                 busReplies, gwOutcome, paidStatus, completed>>

\* the payment.webhook.event loop handles a message: handleWebhookEvent
\* throws (bad signature, provider error) or runs to its end; the loop
\* replies when the message has a reply address
HandleWebhook(i, verified, status, hasInvoice, updateOk) ==
  /\ busMsgs[i].state = "pending"
  /\ busMsgs[i].subject = WebhookSubject
  /\ HasConsumer(paymentBuild, WebhookSubject)
  /\ LET e == IF verified
                THEN WebhookEffect(status, hasInvoice, updateOk, paidStatus)
                ELSE [stored |-> paidStatus, event |-> {}]
     IN  /\ paidStatus' = e.stored
         /\ completed' = completed \cup e.event
  /\ busMsgs' = [busMsgs EXCEPT ![i].state = "handled"]
  /\ busReplies' = [busReplies EXCEPT ![i] =
                      IF busMsgs[i].reply
                        THEN Append(@, IF verified THEN "ok" ELSE "err") ELSE @]
  /\ UNCHANGED <<coreVars, clientVars, createVars, reminderVars, usageVars, paymentBuild,
                 gwOutcome>>

\* the express route POST /webhook of the entry point with the subscription
\* subjects calls handleWebhookEvent directly
HttpWebhook(verified, status, hasInvoice, updateOk) ==
  /\ paymentBuild = "subscriptions"
  /\ LET e == IF verified
                THEN WebhookEffect(status, hasInvoice, updateOk, paidStatus)
                ELSE [stored |-> paidStatus, event |-> {}]
     IN  /\ paidStatus' = e.stored
         /\ completed' = completed \cup e.event
  /\ UNCHANGED <<coreVars, clientVars, createVars, reminderVars, usageVars, paymentBuild,
                 busMsgs, busReplies, gwOutcome>>

\* ------------------------------------------ subscription.invoice.increment
\* a subscription becomes active for the organization: invoice_usage 0 and
\* the plan's invoice_limit, or null for an unlimited plan
ActivatePlan(limit) ==
  /\ plan' = [limit |-> limit, usage |-> 0, active |-> TRUE]
  /\ usageOut' = NoUsageOut
  /\ UNCHANGED <<coreVars, clientVars, createVars, reminderVars, paymentVars>>

\* one iteration of the subscription.invoice.increment loop: decode,
\* incrementInvoiceUsage(data.organizationId, data.count || 1), reply with
\* the result or with {error, limitReached}
Increment(count, reply, fetchOk, updateOk) ==
  /\ plan.limit = Unlimited => plan.usage + CountOrOne(count) <= MaxLimit + 1
  /\ LET n == CountOrOne(count)
         r == IncrementInvoiceUsage(plan, n, fetchOk, updateOk)
     IN  /\ plan' = [plan EXCEPT !.usage = r.usage]
         /\ usageOut' = [count |-> n, reply |-> reply, limit |-> plan.limit,
                         before |-> plan.usage, after |-> r.usage,
                         error |-> r.error, replied |-> reply,
                         limitReached |-> reply /\ r.error # ""
                                               /\ LimitReached(r.error)]
  /\ UNCHANGED <<coreVars, clientVars, createVars, reminderVars, paymentVars>>

\* --------------------------------------------------------- specifications
CallNext ==
  \E c \in Calls :
    \/ \E st \in Sites : StartCall(c, st)
    \/ ExecStep(c)
    \/ AwaitPromise(c)
    \/ TimerFire(c)
    \/ ReplyCallback(c)
    \/ \E env \in NodeEnvs : Consume(c, env)

ServeNext ==
  \E L \in Loops :
    \/ Take(L)
    \/ \E h \in BOOLEAN, f \in BOOLEAN : Finish(L, h, f)

ExtNext ==
  \E L \in Loops, r \in BOOLEAN, q \in BOOLEAN, d \in BOOLEAN :
    ExtPublish(L, r, q, d)

ShutdownNext ==
  \E s \in ShutdownServices : Shutdown(s) \/ Exit(s)

Next == CallNext \/ ServeNext

\* the request/reply calls and the workers that answer them, all Running
Spec == Init /\ [][Next]_vars

NextWorker == ExtNext \/ ServeNext

\* the worker loops fed by outside callers, all Running
SpecWorker == Init /\ [][NextWorker]_vars

NextShutdown == CallNext \/ ServeNext \/ ShutdownNext

\* the calls and their workers, with the services' shutdown sequence
SpecShutdown == Init /\ [][NextShutdown]_vars

NextSend ==
  \/ \E r \in BOOLEAN, d \in BOOLEAN : ExtPublish(SendLoop, r, FALSE, d)
  \/ Take(SendLoop)
  \/ \E f \in BOOLEAN : FinishSend(f)
  \/ Take("email.send.request")
  \/ \E h \in BOOLEAN, f \in BOOLEAN : Finish("email.send.request", h, f)
  \/ \E c \in Calls :
       \/ StartSend(c)
       \/ ExecStep(c)
       \/ AwaitPromise(c)
       \/ TimerFire(c)
       \/ ReplyCallback(c)
       \/ \E env \in NodeEnvs : Consume(c, env)

\* the invoice.send loop, its handler's exchange with email-svc, and the
\* email.send.request loop that answers it
SpecSend == Init /\ [][NextSend]_vars

\* the loop of invoice-svc whose handler may never return
HungLoop == "invoice.create"

HangLoops == {L \in AllLoops : LoopService(L) = LoopService(HungLoop)} \ {SendLoop}

NextHang ==
  \/ \E L \in HangLoops, r \in BOOLEAN, q \in BOOLEAN, d \in BOOLEAN :
       ExtPublish(L, r, q, d)
  \/ \E L \in HangLoops :
       \/ Take(L)
       \/ \E h \in BOOLEAN, f \in BOOLEAN : Finish(L, h, f)

\* every loop pulls its next message when it is free; every handler but
\* that of HungLoop eventually returns or throws
FairnessHang ==
  /\ \A L \in HangLoops : WF_vars(Take(L))
  /\ \A L \in HangLoops \ {HungLoop} :
       WF_vars(\E h \in BOOLEAN, f \in BOOLEAN : Finish(L, h, f))

\* the loops of invoice-svc, one of which may hang in its handler
SpecHang == Init /\ [][NextHang]_vars /\ FairnessHang

LifecycleNext ==
  \E s \in Services :
    \/ \E ev \in Events : Trigger(s, ev)
    \/ \E ev \in Events : Reenter(s, ev)
    \/ Exit(s)

\* the processes' reaction to signals and fatal errors
SpecLifecycle == Init /\ [][LifecycleNext]_vars

NextNoReply ==
  \E c \in Calls :
    \/ \E st \in Sites : StartCall(c, st)
    \/ ExecStep(c)
    \/ AwaitPromise(c)
    \/ TimerFire(c)
    \/ \E env \in NodeEnvs : Consume(c, env)

\* the event loop runs every task that is ready: a synchronous run continues
\* to its end, an armed timer fires, the continuation of a settled promise runs
Fairness ==
  \A c \in Calls : /\ WF_vars(ExecStep(c))
                   /\ WF_vars(AwaitPromise(c))
                   /\ WF_vars(TimerFire(c))
                   /\ WF_vars(\E env \in NodeEnvs : Consume(c, env))

\* the calls against workers that never reply, under a fair event loop
SpecNoReply == Init /\ [][NextNoReply]_vars /\ Fairness

NextClient ==
  \/ NetworkChange
  \/ ConnectNats
  \/ CloseNatsConnection
  \/ \E subject \in GatewaySubjects : PublishMessage(subject)
  \/ \E subject \in GatewaySubjects : SubscribeToSubject(subject)

\* the gateway's bus client over a link that comes and goes
SpecClient == Init /\ [][NextClient]_vars

NextCreate ==
  \/ \E items \in ItemLists, reply \in BOOLEAN : CreateRequest(items, reply)
  \/ \E l \in BOOLEAN, i \in BOOLEAN, f \in BOOLEAN : HandleCreate(l, i, f)

\* the invoice.create loop of invoice-svc, one organization
SpecCreate == Init /\ [][NextCreate]_vars

NextReminder ==
  \/ NextThreshold
  \/ \E r \in RunIds :
       \/ \E kind \in {"cron", "manual"} : StartRun(r, kind)
       \/ \E q \in BOOLEAN : CheckExisting(r, q)
       \/ SendReminder(r)
       \/ \E ok \in BOOLEAN : EmailSettled(r, ok)
       \/ \E i \in BOOLEAN : RecordReminder(r, i)

\* the scheduled and the manual runs of checkOverdueInvoices
SpecReminder == Init /\ [][NextReminder]_vars

NextPayment ==
  \/ \E build \in PaymentBuilds : StartPaymentSvc(build)
  \/ \E i \in ReqMsgIds :
       \/ \E subject \in GatewayRequestSubjects : GatewayRequest(i, subject)
       \/ RequestTimeout(i)
       \/ \E h \in BOOLEAN : HandleRequest(i, h)
       \/ \E r \in BOOLEAN : PublishWebhook(i, r)
       \/ \E v \in BOOLEAN, st \in PaymentStatuses, inv \in BOOLEAN, u \in BOOLEAN :
            HandleWebhook(i, v, st, inv, u)
  \/ \E v \in BOOLEAN, st \in PaymentStatuses, inv \in BOOLEAN, u \in BOOLEAN :
       HttpWebhook(v, st, inv, u)

\* every loop that exists pulls and handles its messages, every handler
\* returns or throws, a request nobody answers runs into its timeout
FairnessPayment ==
  \A i \in ReqMsgIds :
    /\ WF_vars(RequestTimeout(i))
    /\ WF_vars(\E h \in BOOLEAN : HandleRequest(i, h))
    /\ WF_vars(\E v \in BOOLEAN, st \in PaymentStatuses, inv \in BOOLEAN,
                  u \in BOOLEAN : HandleWebhook(i, v, st, inv, u))

\* the gateway's requests and the provider's events against a running
\* payment-svc and invoice-svc
SpecPayment == Init /\ [][NextPayment]_vars /\ FairnessPayment

NextUsage ==
  \/ \E limit \in (0..MaxLimit) \cup {Unlimited} : ActivatePlan(limit)
  \/ \E count \in 0..2, reply \in BOOLEAN, f \in BOOLEAN, u \in BOOLEAN :
       Increment(count, reply, f, u)

\* the subscription.invoice.increment loop of payment-svc, one organization
SpecUsage == Init /\ [][NextUsage]_vars

TypeOK ==
  /\ svc \in [Services -> {"Running", "Closing", "Stopped"}]
  /\ site \in [Calls -> Sites \cup {"none"}]
  /\ pc \in [Calls -> {"idle", "exec", "created", "awaiting", "done"}]
  /\ timer \in [Calls -> {"unset", "armed", "fired", "cleared"}]
  /\ sub \in [Calls -> {"none", "open", "closed"}]
  /\ \A c \in Calls : promise[c].state \in {"pending", "resolved", "rejected"}
  /\ \A i \in MsgIds : Len(responses[i]) <= 2

\* ------------------------------------------------------------------ claims
TimedOut(c) == promise[c] = Rejected(TimeoutError)

\* C1: a pending promise is settled at most once: once responsePromise /
\* emailPromise is resolved or rejected, no later reply and no later timer
\* expiry changes it, and the value handed to the caller never changes.
C1_SingleSettlement ==
  [][\A c \in Calls :
       /\ promise[c].state # "pending" => promise'[c] = promise[c]
       /\ result[c] # "none" => result'[c] = result[c]]_vars

\* a reply callback ran after the timeout had settled the call, on a reply
\* subject that received two envelopes
C1_Witness ==
  \E c \in Calls : /\ timer[c] = "fired"
                   /\ cbLog[c] # <<>>
                   /\ Len(responses[c]) = 2
                   /\ TimedOut(c)

\* C2: once a call has settled, no subscription is open on its reply subject.
C2_SubscriptionCleanup ==
  \A c \in Calls : promise[c].state # "pending" => sub[c] # "open"

\* C3: the reply subscription exists when the request is published, and a
\* published call that is pending and has not timed out has a live
\* subscription on its reply subject.
C3_SubscribeBeforePublish ==
  \A c \in Calls :
    published[c] =>
      /\ sub[c] # "none"
      /\ (promise[c].state = "pending" /\ timer[c] # "fired") => sub[c] = "open"

\* a call has published its request and waits with its subscription open
C3_Witness ==
  \E c \in Calls : /\ published[c]
                   /\ pc[c] = "awaiting"
                   /\ promise[c].state = "pending"
                   /\ sub[c] = "open"
                   /\ queue[SiteLoop(site[c])] # <<>>

C5_TimeoutFires ==
  /\ [](unhandled = {})
  /\ [](\A c \in Calls : promise[c].state # "pending" =>
                           (TimedOut(c) /\ timer[c] = "fired"))
  /\ \A c \in Calls :
       (pc[c] = "awaiting") ~> (TimedOut(c) /\ pc[c] = "done"
                                  /\ result[c] \in {"mock", "error", "skipped"})

\* a call timed out without any reply having been published, and its caller
\* handled the rejection
C5_Witness ==
  \E c \in Calls : /\ TimedOut(c)
                   /\ timer[c] = "fired"
                   /\ responses[c] = <<>>
                   /\ pc[c] = "done"
                   /\ result[c] \in {"mock", "error", "skipped"}

\* C6: no caller-side callback runs for a reply that arrives after the
\* timeout has fired.
C6_LateReplyDropped ==
  \A c \in Calls : \A i \in 1..Len(cbLog[c]) : cbLog[c][i].t # "fired"

\* C7: once a service has begun shutting down, none of its published calls
\* is still pending, has its timer armed or its reply subscription open.
C7_ShutdownRejects ==
  \A c \in Calls :
    (site[c] # "none" /\ published[c] /\ svc[Owner(c)] # "Running") =>
      /\ promise[c].state # "pending"
      /\ timer[c] # "armed"
      /\ sub[c] # "open"

\* the messages a loop has finished handling
Handled == {handled[i] : i \in {j \in MsgIds : handled[j].why # "none"}}

\* C8: every handled message that carried a reply address has exactly one
\* envelope published to that address.
C8_ExactlyOneResponse ==
  \A x \in Handled : x.msg.reply => Len(responses[x.msg.id]) = 1

\* C9: a message whose handler succeeded and whose fan-out publish failed
\* has no error envelope published to its reply address.
C9_FanoutIndependence ==
  \A x \in Handled :
    x.why = "fanoutFail" =>
      \A j \in 1..Len(responses[x.msg.id]) : responses[x.msg.id][j] # "err"

\* C10: a handler exception never ends the loop or reaches the process: the
\* message whose handler threw is answered with one error envelope when it
\* has a reply address, the exception does not escape the loop, and a later
\* message on the same subscription whose handler succeeds is answered with
\* its success payload.
C10_WorkerResilience ==
  \A x \in Handled :
    /\ x.why = "threw" =>
         /\ ~x.fatal
         /\ x.msg.reply => responses[x.msg.id] = <<"err">>
    /\ (x.afterThrow /\ x.why = "ok" /\ x.msg.reply) =>
         responses[x.msg.id] = <<"ok">>

\* message A threw, message B on the same subscription was then answered
C10_Witness ==
  \E x \in Handled : \E y \in Handled :
    /\ x.loop = y.loop
    /\ x.why = "threw"
    /\ x.msg.reply
    /\ responses[x.msg.id] = <<"err">>
    /\ y.afterThrow
    /\ y.why = "ok"
    /\ y.msg.reply
    /\ responses[y.msg.id] = <<"ok">>
    /\ ~crashed[x.loop]

\* C11: a message whose payload cannot be decoded never ends its loop: it is
\* answered with one error envelope when it has a reply address and dropped
\* otherwise, and no exception escapes the loop body.
C11_DecodeFailureLocal ==
  \A x \in Handled :
    x.why = "undecodable" =>
      /\ ~x.fatal
      /\ x.msg.reply => responses[x.msg.id] = <<"err">>
      /\ ~x.msg.reply => responses[x.msg.id] = <<>>

\* C12: a decodable message without reply address that carries a requestId
\* is answered on "<topic>.response.<requestId>", and a message with a reply
\* address is answered on that address only.
C12_BothConventions ==
  \A x \in Handled :
    x.msg.decodable =>
      /\ x.msg.reply => x.to = {"reply"}
      /\ (~x.msg.reply /\ x.msg.reqId # 0) => x.to = {"response"}

\* C19: no caller returns a reply that carries an error envelope as its
\* successful result.
C19_ErrorEnvelopeHonoured ==
  \A c \in Calls :
    result[c] = "response" => promise[c].value.kind # "err"

\* C20: every reply a call's subscription receives, hands to its callback or
\* settles its promise with, was published for that call's own request.
C20_CorrelationIsolation ==
  \A c \in Calls :
    /\ \A i \in 1..Len(inbox[c]) : inbox[c][i].req = c
    /\ \A i \in 1..Len(cbLog[c]) : cbLog[c][i].p.req = c
    /\ (promise[c].state # "pending" /\ ~TimedOut(c)) => promise[c].value.req = c

\* two calls on the same request subject are in flight; the reply of the
\* later one has settled it while the reply of the earlier one still waits
C20_Witness ==
  \E c \in Calls : \E d \in Calls :
    /\ c < d
    /\ SiteLoop(site[c]) = SiteLoop(site[d])
    /\ site[c] # "none" /\ site[d] # "none"
    /\ inbox[c] # <<>>
    /\ promise[c].state = "pending"
    /\ cbLog[d] # <<>>
    /\ promise[d] = Resolved([kind |-> "ok", n |-> 1, req |-> d])

\* C15: shutdown of a service calls close() on its connection at most once
\* and unsubscribe() on each tracked subscription at most once, however
\* often it is triggered before the process has exited.
C15_IdempotentShutdown ==
  \A s \in Services :
    /\ CloseCount(s) <= 1
    /\ \A i \in 1..Len(shutLog[s]) : \A j \in 1..Len(shutLog[s]) :
         (i # j /\ shutLog[s][i].op = "unsubscribe") =>
           shutLog[s][i] # shutLog[s][j]

C17_SoftDrain ==
  /\ \A L \in Loops : svc[LoopService(L)] # "Running" => cur[L] = NoMsg
  /\ \A x \in Handled : x.why # "closed"

\* C18: a service that has left Running has unsubscribed its tracked
\* subscriptions and closed its connection before the process stopped.
C18_TriggersWired ==
  \A s \in Services :
    svc[s] # "Running" =>
      \E i \in 1..Len(shutLog[s]) :
        /\ shutLog[s][i] = CloseCall
        /\ \A j \in 1..i : shutLog[s][j] # ExitCall

\* C13: while a request/reply call made by the invoice.send handler is in
\* flight, the loop still holds the message the call is made for and that
\* message is not yet marked handled; when the loop holds a message, every
\* earlier message of the subscription has been handled; a handled message
\* with a reply address has had its reply published.
C13_SequentialProcessing ==
  /\ \A c \in Calls :
       (serving[c] # 0 /\ pc[c] # "done") =>
         /\ cur[SendLoop].id = serving[c]
         /\ handled[serving[c]].why = "none"
  /\ \A i \in MsgIds :
       (cur[SendLoop] # NoMsg /\ MaxCalls < i /\ i < cur[SendLoop].id) =>
         handled[i].why # "none"
  /\ \A x \in Handled :
       (x.loop = SendLoop /\ x.msg.reply /\ x.msg.decodable) =>
         responses[x.msg.id] # <<>>

\* the handler of a second invoice.send message waits for its email reply
\* after the first message was answered with the result of its own call
C13_Witness ==
  \E c \in Calls : \E d \in Calls :
    /\ serving[c] # 0 /\ serving[d] # 0 /\ serving[c] < serving[d]
    /\ pc[c] = "done" /\ result[c] = "response"
    /\ handled[serving[c]].why = "ok"
    /\ handled[serving[c]].msg.reply
    /\ responses[serving[c]] = <<"ok">>
    /\ pc[d] = "awaiting"
    /\ cur[SendLoop].id = serving[d]

\* message i waits in the subscription of loop L or is being handled
Waiting(L, i) ==
  \/ cur[L].id = i
  \/ \E k \in 1..Len(queue[L]) : queue[L][k].id = i

\* C14: whatever the handler of HungLoop does, every message delivered to
\* another subscription of the same process is eventually handled, and
\* answered when it has a reply address.
C14_SubscriptionsIndependent ==
  \A L \in HangLoops \ {HungLoop} : \A i \in MsgIds :
    Waiting(L, i) ~> (/\ handled[i].why # "none"
                      /\ handled[i].msg.reply => responses[i] # <<>>)

\* the handler of HungLoop is in flight with a later message queued behind
\* it, and a message published after it on another subscription of the
\* process has been answered
C14_Witness ==
  /\ cur[HungLoop] # NoMsg
  /\ \E x \in Handled :
       /\ x.loop \in HangLoops \ {HungLoop}
       /\ x.msg.id > cur[HungLoop].id
       /\ x.msg.reply
       /\ responses[x.msg.id] # <<>>

\* C21: a call whose exchange failed never returns mock data when NODE_ENV
\* is 'production' or is not set to a development value: only an explicit
\* development mode produces the mock result.
C21_MockGatedToDevelopment ==
  [][\A c \in Calls : \A env \in NodeEnvs \ {"development"} :
       Consume(c, env) => result'[c] # "mock"]_vars

\* C26: when handleSendInvoice fails, the invoice's stored status is what it
\* was before the call.
C26_SentOnlyWhenAccepted ==
  \A c \in Calls :
    (site[c] = "sendInvoice" /\ result[c] = "error") => invoiceStatus[c] = "draft"

\* C22: a call of publishMessage or subscribeToSubject fails with 'NATS
\* client not initialized' exactly when no connect has completed, and then
\* publishes nothing and creates no subscription; with an open handle the
\* call succeeds whatever the state of the network; the messages published
\* and the subscriptions created are those of the successful calls.
C22_FailsOnlyWithoutHandle ==
  /\ \A i \in 1..Len(gwLog) :
       /\ gwLog[i].outcome = "NATS client not initialized"
            <=> gwLog[i].client = "undefined"
       /\ gwLog[i].client = "undefined" => gwLog[i].effects = 0
       /\ gwLog[i].client = "open" => gwLog[i].outcome = "ok"
  /\ Len(gwPublished) =
       Cardinality({i \in 1..Len(gwLog) : /\ gwLog[i].op = "publish"
                                          /\ gwLog[i].client # "undefined"
                                          /\ gwLog[i].outcome = "ok"})
  /\ (gwSubs # {}) =>
       \E i \in 1..Len(gwLog) : /\ gwLog[i].op = "subscribe"
                                /\ gwLog[i].client = "open"

\* a publish before any connect failed and published nothing, and a publish
\* on the open handle went through while the link was down
C22_Witness ==
  \E i \in 1..Len(gwLog) : \E j \in 1..Len(gwLog) :
    /\ i < j
    /\ gwLog[i].op = "publish" /\ gwLog[i].client = "undefined"
    /\ gwLog[i].outcome = "NATS client not initialized"
    /\ gwLog[j].op = "publish" /\ gwLog[j].client = "open"
    /\ gwLog[j].net = "down" /\ gwLog[j].outcome = "ok"
    /\ Len(gwPublished) = 1

\* the sum of quantity x unit_price over the items of a list
RECURSIVE SumOver(_, _)
SumOver(items, I) ==
  IF I = {} THEN 0
  ELSE LET i == CHOOSE j \in I : TRUE
       IN  items[i].quantity * items[i].unit_price + SumOver(items, I \ {i})

ScenarioA == <<[quantity |-> 2, unit_price |-> 100]>>

\* C23: an invoice.create request whose invoice was saved is answered first
\* with the saved invoice, whose total_amount is the sum of quantity x
\* unit_price over its items plus 20% (in hundredths: 120 times the sum);
\* for the items of scenario A it is 240.
C23_ScenarioATotals ==
  (createOut.reply /\ createOut.saved) =>
    /\ createOut.envelopes # <<>>
    /\ createOut.envelopes[1] = "ok"
    /\ createOut.total100 =
         120 * SumOver(createOut.items, DOMAIN createOut.items)
    /\ createOut.items = ScenarioA => createOut.total100 = 24000

\* the request of scenario A was answered with a total of 240
C23_Witness ==
  /\ createOut.reply /\ createOut.saved
  /\ createOut.items = ScenarioA
  /\ createOut.envelopes = <<"ok">>
  /\ createOut.total100 = 24000

\* C24: every stored invoice number is the current year followed by a
\* 4-digit sequence, the sequence is 1 for the first invoice and one more
\* than that of the invoice before it otherwise, and the numbers are
\* pairwise distinct.
C24_InvoiceNumbering ==
  /\ \A i \in 1..Len(invoices) :
       /\ Len(invoices[i]) = 8
       /\ SubSeq(invoices[i], 1, 4) = CurrentYear
       /\ i = 1 => SubSeq(invoices[i], 5, 8) = <<0, 0, 0, 1>>
       /\ i > 1 => SubSeq(invoices[i], 5, 8) =
                     PadStart(PlusOne(ParseInt(SubSeq(invoices[i - 1], 5, 8))),
                              4, 0)
  /\ \A i \in 1..Len(invoices) : \A j \in 1..Len(invoices) :
       i # j => invoices[i] # invoices[j]

\* C25: for every invoice and every reminder level, at most one reminder
\* email request is ever published.
C25_OneReminderPerLevel ==
  \A k \in ReminderKeys : emailRequests[k] <= 1

\* C27: with all workers running, every request the gateway issues on one
\* of its request subjects eventually receives a reply.
C27_GatewaySubjectsServed ==
  \A i \in ReqMsgIds : (gwOutcome[i] = "waiting") ~> (gwOutcome[i] = "replied")

\* C28: every message published on payment.webhook.event while payment-svc
\* runs is eventually handled, and answered with exactly one reply when it
\* carries a reply address.
C28_WebhookConsumed ==
  \A i \in ReqMsgIds :
    (busMsgs[i].subject = WebhookSubject /\ busMsgs[i].state = "pending")
      ~> (/\ busMsgs[i].state = "handled"
          /\ busMsgs[i].reply => Len(busReplies[i]) = 1)

\* C29: every payment.completed event published is for a succeeded payment
\* and the invoice's stored status is 'paid' when it has been published.
C29_CompletedMeansPaid ==
  /\ \A e \in completed : e.status = "succeeded" /\ e.stored = "paid"
  /\ completed # {} => paidStatus = "paid"

\* C30: with a non-null invoice_limit, invoice_usage never exceeds it; an
\* increment that would exceed it fails with 'Limite de factures atteinte',
\* is answered with limitReached true when the message has a reply address,
\* and leaves invoice_usage unchanged.
C30_UsageWithinLimit ==
  /\ (plan.active /\ plan.limit # Unlimited) => plan.usage <= plan.limit
  /\ (usageOut.count > 0 /\ usageOut.limit # Unlimited
        /\ usageOut.error # "Abonnement non trouve"
        /\ usageOut.before + usageOut.count > usageOut.limit) =>
       /\ usageOut.error = "Limite de factures atteinte"
       /\ usageOut.after = usageOut.before
       /\ plan.usage = usageOut.before
       /\ usageOut.reply => usageOut.limitReached

\* the usage stood at the limit after accepted increments, and one more
\* increment was refused with limitReached
C30_Witness ==
  /\ plan.active /\ plan.limit # Unlimited /\ plan.limit > 0
  /\ plan.usage = plan.limit
  /\ usageOut.before = plan.limit
  /\ usageOut.count > 0
  /\ usageOut.error = "Limite de factures atteinte"
  /\ usageOut.reply /\ usageOut.limitReached

====
